---- MODULE Spec2Model ----
(***************************************************************************)
(* Coincidence generation from PET singles: the full-ring greedy matcher   *)
(* (tools/generate_coincidences.py, generate_coincidences), the            *)
(* partial-ring merge (generate_coincidences_partial_ring) and the         *)
(* rotating acceptance gate (tools/filter_rotating.py).                    *)
(*                                                                         *)
(* Numbers.  A raw GlobalTime value is c * 10^texp: the integer c is what  *)
(* the arrays hold and texp is the decimal exponent of the file's time     *)
(* resolution.  The coincidence window is a decimal [c, e] (c * 10^e).     *)
(* Comparisons between such numbers are exact (LessDec, GreaterPow10).     *)
(* Angles are integer degrees; a detection position is a point (x, y) of   *)
(* Atan2Table, which tabulates atan2(y, x) in degrees.                     *)
(***************************************************************************)
EXTENDS Integers, Sequences, FiniteSets, TLC

VARIABLES
    mode,                  \* "full" | "partial" | "gate" | "active": what is run
    pc,                    \* position in the entry point's code
    texp,                  \* decimal exponent of one unit of the time arrays
    singles,               \* the input tree as loaded: 0..N-1 -> [x, y, time]
    x, y, z, energy, time, \* the working arrays (re-ordered by the sort)
    angles,                \* np.arctan2(y, x), in degrees
    time_window_tenth_ns,  \* parameter time_window_ns, in tenths of a ns
    min_angle_deg,         \* parameter min_angle_deg
    time_window,           \* the scaled window, a decimal [c, e]
    used, i, j,            \* the matcher's flags and loop indices
    coinc, n_coinc,        \* the emitted pairs, in output order
    warned, saved,         \* "WARNING: No coincidences found!", table written
    idx1, idx2,            \* partial ring: the two time-sorted index lists
    mask, stats,           \* rotating gate: the returned mask and summary
    time_sec,              \* rotating gate: the times in seconds from t_min
    table,                 \* the columns written to the output file
    argsort_memo,          \* what np.argsort returned for the arrays it saw
    first_out,             \* the result of the first of two invocations
    probe                  \* arguments and results of a direct sector query

vars == <<mode, pc, texp, singles, x, y, z, energy, time, angles, time_window_tenth_ns,
          min_angle_deg, time_window, used, i, j, coinc, n_coinc, warned,
          saved, idx1, idx2, mask, stats, time_sec, table, argsort_memo,
          first_out, probe>>

-----------------------------------------------------------------------------
(* Bounds of the model.                                                    *)

MaxN == 3          \* events in a generated full-ring or gate input
MaxTick == 1       \* full ring: timestamps are base + 0 .. base + MaxTick
MaxNPartial == 4   \* events in a generated partial-ring input
MaxTickPartial == 2  \* partial ring: timestamps are 0 .. MaxTickPartial
MaxTickGate == 2   \* gate: timestamps are base + 0 .. base + MaxTickGate

(* Program constants.                                                      *)

DefaultTimeWindowTenthNs == 45   \* time_window_ns=4.5
DefaultMinAngleDeg == 100        \* min_angle_deg=100.0
NModules == 18                   \* n_modules=18
RotationSpeedDegPerSec == 90     \* rotation_speed_deg_per_sec=90.0

-----------------------------------------------------------------------------
(* Exact decimal arithmetic.                                               *)

Abs(a) == IF a < 0 THEN -a ELSE a

Pow10(k) ==
    CASE k = 0 -> 1
      [] k = 1 -> 10
      [] k = 2 -> 100
      [] k = 3 -> 1000
      [] k = 4 -> 10000
      [] k = 5 -> 100000
      [] k = 6 -> 1000000
      [] k = 7 -> 10000000
      [] k = 8 -> 100000000
      [] k = 9 -> 1000000000

\* c * 10^e > 10^p, for an integer c < 2^31: the test `time.max() > 1e12`.
GreaterPow10(c, e, p) ==
    IF c <= 0 THEN FALSE
    ELSE IF e >= p THEN (c > 1 \/ e > p)
    ELSE IF p - e > 9 THEN FALSE
    ELSE c > Pow10(p - e)

\* a * 10^ea < b * 10^eb, for integers a and b > 0 below 2^31.
LessDec(a, ea, b, eb) ==
    IF a <= 0 THEN TRUE
    ELSE IF ea >= eb
         THEN (IF ea - eb > 9 THEN FALSE ELSE a <= (b - 1) \div Pow10(ea - eb))
         ELSE (IF eb - ea > 9 THEN TRUE ELSE a \div Pow10(eb - ea) < b)

ArrayMax(a) == CHOOSE m \in {a[k] : k \in DOMAIN a} : \A k \in DOMAIN a : a[k] <= m
ArrayMin(a) == CHOOSE m \in {a[k] : k \in DOMAIN a} : \A k \in DOMAIN a : m <= a[k]

Len0(a) == Cardinality(DOMAIN a)

-----------------------------------------------------------------------------
(* Positions and angles.                                                   *)

\* atan2(y, x) in degrees, for the detection positions of the model: the
\* eight lattice directions (exact) and five points of the radius-1000 ring
\* (to the nearest degree).
Atan2Table ==
    { <<1, 0, 0>>, <<1, 1, 45>>, <<0, 1, 90>>, <<-1, 1, 135>>,
      <<-1, 0, 180>>, <<-1, -1, -135>>, <<0, -1, -90>>, <<1, -1, -45>>,
      <<1000, 0, 0>>, <<-985, 174, 170>>, <<985, 174, 10>>,
      <<-985, -174, -170>>, <<996, 87, 5>> }

Atan2Deg(py, px) == (CHOOSE r \in Atan2Table : r[1] = px /\ r[2] = py)[3]

-----------------------------------------------------------------------------
(* generate_coincidences: the pure parts.                                  *)

\* The window in the data's scale, from the largest raw timestamp tmax.
ScaleTimeWindow(tmax, window_tenth_ns) ==
    IF GreaterPow10(tmax, texp, 12) THEN [c |-> window_tenth_ns, e |-> 2]
    ELSE IF GreaterPow10(tmax, texp, 6) THEN [c |-> window_tenth_ns, e |-> -1]
    ELSE IF GreaterPow10(tmax, texp, 3) THEN [c |-> window_tenth_ns, e |-> -4]
    ELSE [c |-> window_tenth_ns, e |-> -10]

\* Mutant: no sort, the arrays stay in file order.
ArgSortIdentity(t) == { [k \in DOMAIN t |-> k] }

\* np.argsort(t): every index order that makes t non-decreasing (the
\* default sort kind is not stable, so ties may come out in any order).
ArgSort(t) ==
    { p \in [DOMAIN t -> DOMAIN t] :
        /\ \A a, b \in DOMAIN t : a # b => p[a] # p[b]
        /\ \A a, b \in DOMAIN t : a < b => t[p[a]] <= t[p[b]] }

\* np.argsort is a function of its argument: an array it has sorted before
\* comes out in the same order again.
ArgSortCall(memo, t) ==
    LET seen == { r \in memo : r.arr = t }
    IN  IF seen = {} THEN ArgSort(t) ELSE { r.perm : r \in seen }

\* Mutant: the used flags of an earlier invocation are kept.
FreshUsedStale(n) ==
    IF DOMAIN used = 0 .. n - 1 THEN used ELSE [k \in 0 .. n - 1 |-> FALSE]

\* np.zeros(n, dtype=bool)
FreshUsed(n) == [k \in 0 .. n - 1 |-> FALSE]

\* a[sort_idx]
Take(a, p) == [k \in DOMAIN p |-> a[p[k]]]

\* Mutant: the difference is compared with the unscaled time_window_ns.
InWindowUnscaled(tj, ti, w) ==
    LessDec(tj - ti, texp, time_window_tenth_ns, -1)

\* The loop test (time[j] - time[i]) < time_window.
InWindow(tj, ti, w) == LessDec(tj - ti, texp, w.c, w.e)

\* abs(angles[i] - angles[j]), wrapped to the shorter arc.
AngleDiff(ai, aj) ==
    LET d == Abs(ai - aj) IN IF d > 180 THEN 360 - d ELSE d

\* Mutant: angle_diff >= min_angle_rad.
AngleOKInclusive(ai, aj, min_deg) == AngleDiff(ai, aj) >= min_deg

\* angle_diff > min_angle_rad
AngleOK(ai, aj, min_deg) == AngleDiff(ai, aj) > min_deg

\* Mutant: the scan starts one event late.
FirstCandidateSkip(a) == a + 2

\* j = i + 1
FirstCandidate(a) == a + 1

\* Mutant: only used[i] is set.
MarkUsedFirstOnly(u, a, b) == [u EXCEPT ![a] = TRUE]

\* used[i] = used[j] = True
MarkUsed(u, a, b) == [u EXCEPT ![a] = TRUE, ![b] = TRUE]

\* Mutant: the two members are appended the other way round.
PairOfSwapped(a, b) ==
    [globalPosX1 |-> x[b], globalPosY1 |-> y[b], globalPosZ1 |-> z[b],
     globalPosX2 |-> x[a], globalPosY2 |-> y[a], globalPosZ2 |-> z[a],
     time1 |-> time[b], time2 |-> time[a],
     energy1 |-> energy[b], energy2 |-> energy[a], ev1 |-> b, ev2 |-> a]

\* The ten appends of one emitted pair (ev1, ev2: the members' indices in
\* the time-sorted stream, kept to state the claims about indices).
PairOf(a, b) ==
    [globalPosX1 |-> x[a], globalPosY1 |-> y[a], globalPosZ1 |-> z[a],
     globalPosX2 |-> x[b], globalPosY2 |-> y[b], globalPosZ2 |-> z[b],
     time1 |-> time[a], time2 |-> time[b],
     energy1 |-> energy[a], energy2 |-> energy[b], ev1 |-> a, ev2 |-> b]

\* Mutant: the sequence ids start at 1.
ArangeFromOne(n) == [k \in 1 .. n |-> k]

\* np.arange(n)
Arange(n) == [k \in 1 .. n |-> k - 1]

\* np.zeros(n, dtype=np.int32)
Zeros(n) == [k \in 1 .. n |-> 0]

\* The ten per-pair lists.
DataColumns ==
    {"globalPosX1", "globalPosY1", "globalPosZ1", "globalPosX2",
     "globalPosY2", "globalPosZ2", "time1", "time2", "energy1", "energy2"}

IdColumns == {"eventID1", "eventID2"}

ZeroColumns ==
    {"comptonPhantom1", "comptonPhantom2", "RayleighPhantom1",
     "RayleighPhantom2", "sourceID1", "sourceID2", "runID"}

\* The dictionary written as the Coincidences tree: the lists as arrays,
\* the ids and the zero-filled columns, the latter of length n.
OutData(pairs, n) ==
    [c \in DataColumns \cup IdColumns \cup ZeroColumns |->
        IF c \in DataColumns THEN [k \in 1 .. Len(pairs) |-> pairs[k][c]]
        ELSE IF c \in IdColumns THEN Arange(n)
        ELSE Zeros(n)]

-----------------------------------------------------------------------------
(* Inputs.                                                                 *)

\* Time scales of the generated files: seconds with ns resolution, small
\* raw numbers, and files whose largest value is above 1e3, 1e6 and 1e12.
TimeFormats ==
    { [base |-> 0, exp |-> -9], [base |-> 0, exp |-> 0],
      [base |-> 2000000, exp |-> -3], [base |-> 2000000, exp |-> 0],
      [base |-> 2000000000, exp |-> 3] }

Positions == { <<1, 0>>, <<-1, 1>>, <<-1, -1>> }

Events(fmt) ==
    { [x |-> p[1], y |-> p[2], time |-> fmt.base + k] :
        p \in Positions, k \in 0 .. MaxTick }

GenSingles(fmt, n) == UNION { [0 .. m - 1 -> Events(fmt)] : m \in 0 .. n }

\* The five events of the full-ring example: times [0,1,2,3,10], angles
\* [0, 170, 10, 190, 5] degrees.
ExampleSingles(fmt) ==
    [k \in 0 .. 4 |->
        CASE k = 0 -> [x |-> 1000, y |-> 0, time |-> fmt.base + 0]
          [] k = 1 -> [x |-> -985, y |-> 174, time |-> fmt.base + 1]
          [] k = 2 -> [x |-> 985, y |-> 174, time |-> fmt.base + 2]
          [] k = 3 -> [x |-> -985, y |-> -174, time |-> fmt.base + 3]
          [] k = 4 -> [x |-> 996, y |-> 87, time |-> fmt.base + 10]]

\* The example's five events in every file order.
ExampleOrders(fmt) ==
    { Take(ExampleSingles(fmt), p) :
        p \in { q \in [0 .. 4 -> 0 .. 4] :
                  \A a, b \in 0 .. 4 : a # b => q[a] # q[b] } }

NsFormat == [base |-> 0, exp |-> -9]

ParamSets ==
    { [window |-> DefaultTimeWindowTenthNs, min_angle |-> DefaultMinAngleDeg],
      [window |-> 5, min_angle |-> 90] }

NoWindow == [c |-> 0, e |-> 0]
Empty == << >>

\* The z and energy branches of an event; the generated events that carry
\* neither have z = 0 and energy = 0.
PostPositionZ(e) == IF "z" \in DOMAIN e THEN e.z ELSE 0
TotalEnergyDeposit(e) == IF "energy" \in DOMAIN e THEN e.energy ELSE 0

\* The state after lines 65-77, but for the time array and the query.
LoadedButTime(m, s, fmt, prm) ==
    /\ mode = m
    /\ texp = fmt.exp
    /\ singles = s
    /\ x = [k \in DOMAIN s |-> s[k].x]
    /\ y = [k \in DOMAIN s |-> s[k].y]
    /\ z = [k \in DOMAIN s |-> PostPositionZ(s[k])]
    /\ energy = [k \in DOMAIN s |-> TotalEnergyDeposit(s[k])]
    /\ time_window_tenth_ns = prm.window
    /\ min_angle_deg = prm.min_angle
    /\ angles = Empty /\ time_window = NoWindow /\ used = Empty
    /\ i = 0 /\ j = 0 /\ coinc = Empty /\ n_coinc = 0
    /\ warned = FALSE /\ saved = FALSE
    /\ idx1 = Empty /\ idx2 = Empty /\ mask = Empty /\ stats = Empty
    /\ time_sec = Empty /\ table = Empty /\ argsort_memo = {}
    /\ first_out = Empty

\* The state after lines 65-77 (the arrays as read from the tree).
Loaded(m, s, fmt, prm) ==
    /\ LoadedButTime(m, s, fmt, prm)
    /\ time = [k \in DOMAIN s |-> s[k].time]
    /\ probe = Empty

Init ==
    /\ pc = "prepare"
    /\ \E fmt \in TimeFormats, prm \in ParamSets :
         \E s \in GenSingles(fmt, MaxN) \cup
                  (IF prm.window = DefaultTimeWindowTenthNs
                   THEN ExampleOrders(fmt) ELSE {}) :
            Loaded("full", s, fmt, prm)

-----------------------------------------------------------------------------
(* generate_coincidences, full ring.                                       *)

\* generate_coincidences, with rotating=False or rotating=True.
FullRing == mode \in {"full", "rotating"}

\* n_singles = len(x), taken when the tree is read (line 76): the length of
\* the x branch; with rotating=True it is taken again from the filtered x
\* (line 94).
n_singles == IF mode = "rotating" THEN Len0(x) ELSE Len0(singles)

matchVars == <<used, i, j, coinc, n_coinc>>
otherVars == <<idx1, idx2, mask, stats>>
paramVars == <<mode, texp, singles, time_window_tenth_ns, min_angle_deg>>
auxVars == <<time_sec, table, argsort_memo, first_out, probe>>

\* Lines 97-110: angles, window scale.  time.max() of an empty array
\* raises ValueError.
Prepare ==
    /\ FullRing /\ pc = "prepare"
    /\ IF Len0(time) = 0
       THEN /\ pc' = "ValueError"
            /\ UNCHANGED <<angles, time_window>>
       ELSE /\ angles' = [k \in DOMAIN x |-> Atan2Deg(y[k], x[k])]
            /\ time_window' = ScaleTimeWindow(ArrayMax(time), time_window_tenth_ns)
            /\ pc' = "sort"
    /\ UNCHANGED <<x, y, z, energy, time, warned, saved>>
    /\ UNCHANGED <<paramVars, auxVars, matchVars, otherVars>>

\* Mutant: the energy array is left in file order.
SortByTimeButEnergy ==
    /\ FullRing /\ pc = "sort"
    /\ DOMAIN time \subseteq DOMAIN x
    /\ \E sort_idx \in ArgSortCall(argsort_memo, time) :
         /\ x' = Take(x, sort_idx)
         /\ y' = Take(y, sort_idx)
         /\ z' = Take(z, sort_idx)
         /\ energy' = energy
         /\ time' = Take(time, sort_idx)
         /\ angles' = Take(angles, sort_idx)
         /\ argsort_memo' =
              argsort_memo \cup {[arr |-> time, perm |-> sort_idx]}
    /\ coinc' = << >>
    /\ used' = FreshUsed(n_singles)
    /\ n_coinc' = 0 /\ i' = 0
    /\ pc' = "outer"
    /\ UNCHANGED <<j, time_window, warned, saved>>
    /\ UNCHANGED <<paramVars, otherVars, time_sec, table, first_out, probe>>

\* Lines 112-127: the time sort of every array, fresh used flags.
SortByTime ==
    /\ FullRing /\ pc = "sort"
    /\ DOMAIN time \subseteq DOMAIN x
    /\ \E sort_idx \in ArgSortCall(argsort_memo, time) :
         /\ x' = Take(x, sort_idx)
         /\ y' = Take(y, sort_idx)
         /\ z' = Take(z, sort_idx)
         /\ energy' = Take(energy, sort_idx)
         /\ time' = Take(time, sort_idx)
         /\ angles' = Take(angles, sort_idx)
         /\ argsort_memo' =
              argsort_memo \cup {[arr |-> time, perm |-> sort_idx]}
    /\ coinc' = << >>
    /\ used' = FreshUsed(n_singles)
    /\ n_coinc' = 0 /\ i' = 0
    /\ pc' = "outer"
    /\ UNCHANGED <<j, time_window, warned, saved>>
    /\ UNCHANGED <<paramVars, otherVars, time_sec, table, first_out, probe>>

\* Lines 129-131: `if used[i]: continue`.
OuterSkip ==
    /\ FullRing /\ pc = "outer"
    /\ i < n_singles /\ used[i]
    /\ i' = i + 1
    /\ UNCHANGED <<pc, x, y, z, energy, time, angles, time_window, used, j, coinc, n_coinc,
                   warned, saved>>
    /\ UNCHANGED <<paramVars, auxVars, otherVars>>

\* Line 132: j = i + 1.
OuterStart ==
    /\ FullRing /\ pc = "outer"
    /\ i < n_singles /\ ~used[i]
    /\ j' = FirstCandidate(i)
    /\ pc' = "inner"
    /\ UNCHANGED <<x, y, z, energy, time, angles, time_window, used, i, coinc, n_coinc,
                   warned, saved>>
    /\ UNCHANGED <<paramVars, auxVars, otherVars>>

\* time[j] and time[i] exist when the while test reads them.
IndexOK == j < n_singles => (i \in DOMAIN time /\ j \in DOMAIN time)

WhileTest == j < n_singles /\ InWindow(time[j], time[i], time_window)

\* Mutant: a candidate is left alone when a later unused event has no
\* other partner and i has a later one.
QualifiesSparing ==
    LET free(a) == a \in DOMAIN time /\ a < n_singles /\ ~used[a]
        partner(a, b) ==
            /\ a # b /\ free(a) /\ free(b)
            /\ InWindow(time[a], time[b], time_window)
            /\ InWindow(time[b], time[a], time_window)
            /\ AngleOK(angles[a], angles[b], min_angle_deg)
    IN  /\ ~used[j] /\ AngleOK(angles[i], angles[j], min_angle_deg)
        /\ ~\E c \in DOMAIN time \ {i, j} :
               /\ c > i /\ partner(c, j)
               /\ \A d \in DOMAIN time \ {i, j, c} : ~partner(c, d)
               /\ \E d \in DOMAIN time \ {i, j, c} : d > j /\ partner(i, d)

Qualifies == ~used[j] /\ AngleOK(angles[i], angles[j], min_angle_deg)

\* Lines 133-151: the candidate qualifies; emit, mark, break.
InnerMatch ==
    /\ FullRing /\ pc = "inner"
    /\ IndexOK
    /\ WhileTest /\ Qualifies
    /\ coinc' = Append(coinc, PairOf(i, j))
    /\ used' = MarkUsed(used, i, j)
    /\ n_coinc' = n_coinc + 1
    /\ i' = i + 1
    /\ pc' = "outer"
    /\ UNCHANGED <<x, y, z, energy, time, angles, time_window, j, warned, saved>>
    /\ UNCHANGED <<paramVars, auxVars, otherVars>>

\* Mutant: the candidate does not qualify and j is left where it is.
InnerAdvanceStuck ==
    /\ FullRing /\ pc = "inner"
    /\ IndexOK
    /\ WhileTest /\ ~Qualifies
    /\ j' = j
    /\ UNCHANGED <<pc, x, y, z, energy, time, angles, time_window, used, i, coinc, n_coinc,
                   warned, saved>>
    /\ UNCHANGED <<paramVars, auxVars, otherVars>>

\* Lines 133-152: the candidate does not qualify; j += 1.
InnerAdvance ==
    /\ FullRing /\ pc = "inner"
    /\ IndexOK
    /\ WhileTest /\ ~Qualifies
    /\ j' = j + 1
    /\ UNCHANGED <<pc, x, y, z, energy, time, angles, time_window, used, i, coinc, n_coinc,
                   warned, saved>>
    /\ UNCHANGED <<paramVars, auxVars, otherVars>>

\* Line 133: the while test fails; next i.
InnerExit ==
    /\ FullRing /\ pc = "inner"
    /\ IndexOK
    /\ ~WhileTest
    /\ i' = i + 1
    /\ pc' = "outer"
    /\ UNCHANGED <<x, y, z, energy, time, angles, time_window, used, j, coinc, n_coinc,
                   warned, saved>>
    /\ UNCHANGED <<paramVars, auxVars, otherVars>>

\* Lines 154-158: no pair; warn and return 0, nothing is written.
ReportNone ==
    /\ FullRing /\ pc = "outer"
    /\ i = n_singles /\ n_coinc = 0
    /\ warned' = TRUE
    /\ pc' = "done"
    /\ UNCHANGED <<x, y, z, energy, time, angles, time_window, saved>>
    /\ UNCHANGED <<paramVars, auxVars, matchVars, otherVars>>

\* Lines 154-182: the table is written.
Save ==
    /\ FullRing /\ pc = "outer"
    /\ i = n_singles /\ n_coinc # 0
    /\ table' = OutData(coinc, n_coinc)
    /\ saved' = TRUE
    /\ pc' = "done"
    /\ UNCHANGED <<x, y, z, energy, time, angles, time_window, warned>>
    /\ UNCHANGED <<paramVars, matchVars, otherVars>>
    /\ UNCHANGED <<time_sec, argsort_memo, first_out, probe>>

Next ==
    \/ Prepare
    \/ SortByTime
    \/ OuterSkip
    \/ OuterStart
    \/ InnerMatch
    \/ InnerAdvance
    \/ InnerExit
    \/ ReportNone
    \/ Save

Spec == Init /\ [][Next]_vars

-----------------------------------------------------------------------------
(* Four events inside one window: times t, t+1, t+2, t+3 in a file of      *)
(* nanoseconds (values above 1e6, window 4.5), at every choice of          *)
(* positions among four directions.                                        *)

NsTickFormat == [base |-> 2000000, exp |-> 0]

\* Azimuths 0, 135, -90 and -135 degrees.
FourPositions == { <<1, 0>>, <<-1, 1>>, <<0, -1>>, <<-1, -1>> }

FourStreams ==
    { [k \in 0 .. 3 |->
         [x |-> ps[k][1], y |-> ps[k][2], time |-> NsTickFormat.base + k]] :
      ps \in [0 .. 3 -> FourPositions] }

\* The first event's earliest eligible partner (135 degrees) is the only
\* eligible partner of the third event (-90 degrees).
GreedyStream ==
    [k \in 0 .. 3 |->
        CASE k = 0 -> [x |-> 1, y |-> 0, time |-> NsTickFormat.base]
          [] k = 1 -> [x |-> -1, y |-> 1, time |-> NsTickFormat.base + 1]
          [] k = 2 -> [x |-> 0, y |-> -1, time |-> NsTickFormat.base + 2]
          [] k = 3 -> [x |-> -1, y |-> -1, time |-> NsTickFormat.base + 3]]

InitFour ==
    /\ pc = "prepare"
    /\ \E s \in FourStreams :
         Loaded("full", s, NsTickFormat,
                [window |-> DefaultTimeWindowTenthNs,
                 min_angle |-> DefaultMinAngleDeg])

SpecFour == InitFour /\ [][Next]_vars

-----------------------------------------------------------------------------
(* A tree whose GlobalTime branch has another length than its position    *)
(* branches.  Nothing in lines 65-77 compares the lengths.                 *)

\* Line 114: x[sort_idx] with an index beyond the end of x.
SortIndexError ==
    /\ FullRing /\ pc = "sort"
    /\ ~(DOMAIN time \subseteq DOMAIN x)
    /\ pc' = "IndexError"
    /\ UNCHANGED <<x, y, z, energy, time, angles, time_window, warned, saved>>
    /\ UNCHANGED <<paramVars, auxVars, matchVars, otherVars>>

\* Line 133: time[j] or time[i] beyond the end of time.
InnerIndexError ==
    /\ FullRing /\ pc = "inner"
    /\ ~IndexOK
    /\ pc' = "IndexError"
    /\ UNCHANGED <<x, y, z, energy, time, angles, time_window, warned, saved>>
    /\ UNCHANGED <<paramVars, auxVars, matchVars, otherVars>>

\* The time value of an entry the GlobalTime branch does not have.
NoTime == -1

\* Position branches of n entries, a GlobalTime branch of m entries.
InitIngest ==
    /\ pc = "prepare"
    /\ \E n \in 0 .. MaxN, prm \in ParamSets :
         \E m \in 0 .. n + 1 :
           \E ps \in [0 .. n - 1 -> Positions], ts \in [0 .. m - 1 -> 0 .. MaxTick] :
              /\ LoadedButTime("full",
                        [k \in 0 .. n - 1 |->
                           [x |-> ps[k][1], y |-> ps[k][2],
                            time |-> IF k < m THEN ts[k] ELSE NoTime]],
                        NsFormat, prm)
              /\ time = ts
              /\ probe = Empty

NextIngest ==
    \/ Prepare
    \/ SortByTime
    \/ SortIndexError
    \/ OuterSkip
    \/ OuterStart
    \/ InnerMatch
    \/ InnerAdvance
    \/ InnerExit
    \/ InnerIndexError
    \/ ReportNone
    \/ Save

SpecIngest == InitIngest /\ [][NextIngest]_vars

-----------------------------------------------------------------------------
(* generate_coincidences_partial_ring.                                     *)

\* np.where(mask)[0]: the indices that satisfy the mask, ascending.
Where(S) ==
    LET F[T \in SUBSET S] ==
          IF T = {} THEN << >>
          ELSE LET m == CHOOSE a \in T : \A b \in T : b <= a
               IN  Append(F[T \ {m}], m)
    IN  F[S]

\* time[idx], 0-based
SubTimes(idx) == [q \in 0 .. Len(idx) - 1 |-> time[idx[q + 1]]]

\* idx[p], 0-based
Reorder(idx, p) == [q \in 0 .. Len(idx) - 1 |-> idx[p[q] + 1]]

\* Mutant: the pointer also moves onto an x>0 event of equal time.
PointerAdvancesInclusive(tnext, ti) == tnext <= ti

\* time[idx2[j+1]] < time[i]
PointerAdvances(tnext, ti) == tnext < ti

\* One point on each side, 90 degrees apart in azimuth (45 and 135), and
\* one with x = 0.
PartialPositions == { <<1, 1>>, <<-1, 1>>, <<0, 1>> }

PartialEvents ==
    { [x |-> p[1], y |-> p[2], time |-> k] :
        p \in PartialPositions, k \in 0 .. MaxTickPartial }

\* The partial-ring example: x<0 at times [1,3,5], x>0 at times [0,2,4].
PartialExample ==
    [k \in 0 .. 5 |->
        IF k < 3 THEN [x |-> -1, y |-> 0, time |-> 2 * k + 1]
        ELSE [x |-> 1, y |-> 0, time |-> 2 * (k - 3)]]

InitPartial ==
    /\ pc = "split"
    /\ \E s \in UNION { [0 .. m - 1 -> PartialEvents] : m \in 0 .. MaxNPartial }
                \cup {PartialExample} :
         Loaded("partial", s, [base |-> 0, exp |-> 0],
                [window |-> DefaultTimeWindowTenthNs,
                 min_angle |-> DefaultMinAngleDeg])

fixedArrays == <<x, y, z, energy, time, angles, time_window>>

\* Lines 204-219: the two sides, each sorted by time; j = 0.
Split ==
    /\ mode = "partial" /\ pc = "split"
    /\ LET w1 == Where({k \in DOMAIN x : x[k] < 0})
           w2 == Where({k \in DOMAIN x : x[k] > 0})
       IN  \E p1 \in ArgSortCall(argsort_memo, SubTimes(w1)) :
             LET memo1 == argsort_memo \cup
                            {[arr |-> SubTimes(w1), perm |-> p1]}
             IN  \E p2 \in ArgSortCall(memo1, SubTimes(w2)) :
                   /\ idx1' = Reorder(w1, p1)
                   /\ idx2' = Reorder(w2, p2)
                   /\ argsort_memo' =
                        memo1 \cup {[arr |-> SubTimes(w2), perm |-> p2]}
    /\ coinc' = << >>
    /\ i' = 0 /\ j' = 0
    /\ pc' = "for"
    /\ UNCHANGED <<used, n_coinc, warned, saved, mask, stats>>
    /\ UNCHANGED <<paramVars, fixedArrays, time_sec, table, first_out, probe>>

\* Lines 220-222: `if j >= len(idx2): break`.
ForBreak ==
    /\ mode = "partial" /\ pc = "for"
    /\ i < Len0(idx1) /\ j >= Len0(idx2)
    /\ pc' = "save"
    /\ UNCHANGED <<paramVars, auxVars, fixedArrays, matchVars, otherVars, warned, saved>>

\* Line 220: the next x<0 event, with the pointer still on an event.
ForEnter ==
    /\ mode = "partial" /\ pc = "for"
    /\ i < Len0(idx1) /\ j < Len0(idx2)
    /\ pc' = "while"
    /\ UNCHANGED <<paramVars, auxVars, fixedArrays, matchVars, otherVars, warned, saved>>

\* Line 220: the x<0 side is exhausted.
ForEnd ==
    /\ mode = "partial" /\ pc = "for"
    /\ i = Len0(idx1)
    /\ pc' = "save"
    /\ UNCHANGED <<paramVars, auxVars, fixedArrays, matchVars, otherVars, warned, saved>>

PointerTest ==
    /\ j < Len0(idx2) - 1
    /\ PointerAdvances(time[idx2[j + 1]], time[idx1[i]])

\* Lines 223-224: j += 1.
WhileAdvance ==
    /\ mode = "partial" /\ pc = "while"
    /\ PointerTest
    /\ j' = j + 1
    /\ UNCHANGED <<pc, used, i, coinc, n_coinc, warned, saved>>
    /\ UNCHANGED <<paramVars, auxVars, fixedArrays, otherVars>>

\* Mutant: the pointer starts again from the first x>0 event.
PointerAfterPairReset(jj) == 0

\* Mutant: the pointer is left on the partner just taken.
PointerAfterPairStay(jj) == jj

\* Line 236: j += 1 after a pair.
PointerAfterPair(jj) == jj + 1

\* Mutant: the full ring's window and angle tests applied to the candidate;
\* a rejected x<0 event is passed over.
PairUpFiltered ==
    /\ mode = "partial" /\ pc = "while"
    /\ ~PointerTest
    /\ LET a == idx1[i]
           b == idx2[j]
           w == ScaleTimeWindow(ArrayMax(time), time_window_tenth_ns)
       IN  IF /\ LessDec(Abs(time[a] - time[b]), texp, w.c, w.e)
              /\ AngleOK(Atan2Deg(y[a], x[a]), Atan2Deg(y[b], x[b]),
                         min_angle_deg)
           THEN coinc' = Append(coinc, PairOf(a, b)) /\ j' = j + 1
           ELSE UNCHANGED <<coinc, j>>
    /\ i' = i + 1
    /\ pc' = "for"
    /\ UNCHANGED <<used, n_coinc, warned, saved>>
    /\ UNCHANGED <<paramVars, auxVars, fixedArrays, otherVars>>

\* Lines 225-236: pair with idx2[j], then j += 1.
PairUp ==
    /\ mode = "partial" /\ pc = "while"
    /\ ~PointerTest
    /\ coinc' = Append(coinc, PairOf(idx1[i], idx2[j]))
    /\ j' = PointerAfterPair(j)
    /\ i' = i + 1
    /\ pc' = "for"
    /\ UNCHANGED <<used, n_coinc, warned, saved>>
    /\ UNCHANGED <<paramVars, auxVars, fixedArrays, otherVars>>

\* Lines 238-257: the table is written, whatever its length.
SavePartial ==
    /\ mode = "partial" /\ pc = "save"
    /\ n_coinc' = Len(coinc)
    /\ table' = OutData(coinc, n_coinc')
    /\ saved' = TRUE
    /\ pc' = "done"
    /\ UNCHANGED <<used, i, j, coinc, warned>>
    /\ UNCHANGED <<paramVars, fixedArrays, otherVars>>
    /\ UNCHANGED <<time_sec, argsort_memo, first_out, probe>>

NextPartial ==
    \/ Split
    \/ ForBreak
    \/ ForEnter
    \/ ForEnd
    \/ WhileAdvance
    \/ PairUp
    \/ SavePartial

SpecPartial == InitPartial /\ [][NextPartial]_vars

\* Shorter streams, for the runs checked to their end.
InitPartialShort ==
    /\ pc = "split"
    /\ \E s \in UNION { [0 .. m - 1 -> PartialEvents] : m \in 0 .. MaxN }
                \cup {PartialExample} :
         Loaded("partial", s, [base |-> 0, exp |-> 0],
                [window |-> DefaultTimeWindowTenthNs,
                 min_angle |-> DefaultMinAngleDeg])

\* The interpreter keeps executing the function until it returns.
SpecPartialFair ==
    InitPartialShort /\ [][NextPartial]_vars /\ WF_vars(NextPartial)

\* Files of six events with all three kinds of event: two with x < 0 and
\* three with x > 0, in that order, and one with x = 0 at any place among
\* them; every event at any time.
MixedStreams ==
    { [k \in 0 .. 5 |->
         [x |-> IF k = zero THEN 0
                ELSE IF (IF k < zero THEN k ELSE k - 1) < 2 THEN -1 ELSE 1,
          y |-> 1,
          time |-> t[k]]] :
        zero \in 0 .. 5, t \in [0 .. 5 -> 0 .. MaxTickPartial] }

InitPartialMixed ==
    /\ pc = "split"
    /\ \E s \in UNION { [0 .. m - 1 -> PartialEvents] : m \in 0 .. MaxN }
                \cup MixedStreams :
         Loaded("partial", s, [base |-> 0, exp |-> 0],
                [window |-> DefaultTimeWindowTenthNs,
                 min_angle |-> DefaultMinAngleDeg])

SpecPartialMixed == InitPartialMixed /\ [][NextPartial]_vars

-----------------------------------------------------------------------------
(* Files whose events can be told apart: the z of an event is its row in   *)
(* the file and its energy is a second, different, mark of that row.       *)

RowMarked(s) ==
    [k \in DOMAIN s |->
        [x |-> s[k].x, y |-> s[k].y, time |-> s[k].time,
         z |-> k, energy |-> 2 * k + 1]]

InitFields ==
    LET prm == [window |-> DefaultTimeWindowTenthNs,
                min_angle |-> DefaultMinAngleDeg]
    IN  \/ /\ pc = "prepare"
           /\ \E s \in GenSingles(NsFormat, MaxN) \cup ExampleOrders(NsFormat) :
                Loaded("full", RowMarked(s), NsFormat, prm)
        \/ /\ pc = "split"
           /\ \E s \in UNION { [0 .. m - 1 -> PartialEvents] : m \in 0 .. MaxN }
                       \cup MixedStreams :
                Loaded("partial", RowMarked(s), [base |-> 0, exp |-> 0], prm)

NextFields == Next \/ NextPartial

SpecFields == InitFields /\ [][NextFields]_vars

-----------------------------------------------------------------------------
(* filter_rotating.py: the rotating acceptance gate.                       *)

\* floor(num * 10^k / den), for integers num >= 0 and den > 0 below 2^31.
FloorDec(num, k, den) ==
    IF k >= 0 THEN (num * Pow10(k)) \div den
    ELSE IF -k > 9 THEN 0
    ELSE (num \div Pow10(-k)) \div den

\* get_module_id: int((atan2(y, x) + pi) / (2 pi) * n_modules) % n_modules
GetModuleId(px, py, n) == (((Atan2Deg(py, px) + 180) * n) \div 360) % n

\* Mutant: the thresholds are inclusive (>= 1e12, >= 1e9).
TimeUnitExpInclusive(tmax) ==
    IF ~LessDec(tmax, texp, 1, 12) THEN 12
    ELSE IF ~LessDec(tmax, texp, 1, 9) THEN 9
    ELSE 0

\* The decimal exponent of the divisor applied to time - time.min().
TimeUnitExp(tmax) ==
    IF GreaterPow10(tmax, texp, 12) THEN 12
    ELSE IF GreaterPow10(tmax, texp, 9) THEN 9
    ELSE 0

\* time_sec = (time - t_min) / divisor, one decimal per event.
TimeSec(t) ==
    [k \in DOMAIN t |-> [c |-> t[k] - ArrayMin(t),
                         e |-> texp - TimeUnitExp(ArrayMax(t))]]

\* The float64 evaluation of (speed * time_sec) / (360.0 / n) for times in
\* tenths of a second from t_min = 0: the triples <<speed, n, tenths>> at
\* which the quotient is an integer in exact arithmetic and comes out just
\* below it in float64, so that astype(int) gives one less than the floor.
\* (Every other point of the model's inputs gives the exact floor.)
TruncatedBelow ==
    { <<90, 10, 28>>, <<90, 10, 56>>,
      <<180, 10, 14>>, <<180, 10, 28>>, <<180, 10, 46>>, <<180, 10, 56>>,
      <<90, 20, 14>>, <<90, 20, 28>>, <<90, 20, 46>>, <<90, 20, 56>>,
      <<180, 20, 7>>, <<180, 20, 14>>, <<180, 20, 23>>, <<180, 20, 28>>,
      <<180, 20, 41>>, <<180, 20, 46>>, <<180, 20, 51>>, <<180, 20, 56>> }

FloatDeficit(speed, n, t, tmin, k) ==
    IF k = -1 /\ tmin = 0 /\ <<speed, n, t>> \in TruncatedBelow THEN 1 ELSE 0

\* active_module_a of one event: int(rotation_angle / degrees_per_module)
\* % (n_modules // 2), with rotation_angle = speed * time_sec.
ActiveModuleA(t, tmin, tmax, speed, n) ==
    LET k == texp - TimeUnitExp(tmax)
    IN  (FloorDec(speed * n * (t - tmin), k, 360)
           - FloatDeficit(speed, n, t, tmin, k)) % (n \div 2)

\* active_module_b = active_module_a + n_modules // 2
ActiveModuleB(a, n) == a + (n \div 2)

\* Mutant: only active_module_a is accepted.
FilterMaskFirstOnly(px, py, t, speed, n) ==
    [k \in DOMAIN px |->
        GetModuleId(px[k], py[k], n)
            = ActiveModuleA(t[k], ArrayMin(t), ArrayMax(t), speed, n)]

\* mask = (module_id == active_module_a) | (module_id == active_module_b)
FilterMask(px, py, t, speed, n) ==
    [k \in DOMAIN px |->
        LET m == GetModuleId(px[k], py[k], n)
            a == ActiveModuleA(t[k], ArrayMin(t), ArrayMax(t), speed, n)
        IN  m = a \/ m = ActiveModuleB(a, n)]

CountTrue(m) == Cardinality({k \in DOMAIN m : m[k]})

\* The returned summary; percentage is the fraction num / den.
FilterStats(m, t) ==
    [n_total |-> Len0(m),
     n_filtered |-> CountTrue(m),
     percentage |-> IF Len0(m) > 0
                    THEN [num |-> 100 * CountTrue(m), den |-> Len0(m)]
                    ELSE [num |-> 0, den |-> 1],
     total_time_sec |-> [c |-> ArrayMax(t) - ArrayMin(t),
                         e |-> texp - TimeUnitExp(ArrayMax(t))]]

\* The gate's files also come with whole seconds written as ns and as ps.
GateFormats ==
    TimeFormats \cup { [base |-> 2, exp |-> 9], [base |-> 2, exp |-> 12] }

GatePositions == { <<1, 0>>, <<-1, 0>>, <<0, 1>>, <<-1, -1>> }

GateEvents(fmt) ==
    { [x |-> p[1], y |-> p[2], time |-> fmt.base + k] :
        p \in GatePositions, k \in 0 .. MaxTickGate }

InitGate ==
    /\ pc = "filter"
    /\ \E fmt \in GateFormats :
         \E s \in UNION { [0 .. m - 1 -> GateEvents(fmt)] : m \in 0 .. MaxN } :
            Loaded("gate", s, fmt,
                   [window |-> DefaultTimeWindowTenthNs,
                    min_angle |-> DefaultMinAngleDeg])

\* Lines 85-89 on an empty stream: time.min() raises ValueError.
FilterEmpty ==
    /\ mode = "gate" /\ pc = "filter"
    /\ n_singles = 0
    /\ pc' = "ValueError"
    /\ UNCHANGED <<paramVars, auxVars, fixedArrays, matchVars, otherVars, warned, saved>>

\* Lines 85-115: the mask and the summary.
FilterSinglesRotating ==
    /\ mode = "gate" /\ pc = "filter"
    /\ n_singles > 0
    /\ mask' = FilterMask(x, y, time, RotationSpeedDegPerSec, NModules)
    /\ stats' = FilterStats(mask', time)
    /\ time_sec' = TimeSec(time)
    /\ pc' = "done"
    /\ UNCHANGED <<paramVars, fixedArrays, matchVars, idx1, idx2, warned, saved>>
    /\ UNCHANGED <<table, argsort_memo, first_out, probe>>

NextGate ==
    \/ FilterEmpty
    \/ FilterSinglesRotating

SpecGate == InitGate /\ [][NextGate]_vars

-----------------------------------------------------------------------------
(* generate_coincidences with rotating=True: the gate on the arrays as     *)
(* read, then the full-ring matcher on what it retains (lines 79-95).      *)

\* Mutant: the mask is computed but the arrays are not filtered.
ApplyMaskNone(a, m) == a

\* a[mask]: the entries the mask retains, in their order, 0-based.
ApplyMask(a, m) ==
    LET w == Where({k \in DOMAIN m : m[k]})
    IN  [q \in 0 .. Len(w) - 1 |-> a[w[q + 1]]]

\* Whole seconds; azimuths 0, 180, 135 and -90 degrees (sectors 9, 0, 15
\* and 4 of 18).
RotatingPositions == { <<1, 0>>, <<-1, 0>>, <<-1, 1>>, <<0, -1>> }

RotatingEvents ==
    { [x |-> p[1], y |-> p[2], time |-> k] :
        p \in RotatingPositions, k \in 0 .. MaxTick }

InitRotating ==
    /\ pc = "gate"
    /\ \E s \in UNION { [0 .. m - 1 -> RotatingEvents] : m \in 0 .. MaxN } :
         Loaded("rotating", s, [base |-> 0, exp |-> 0],
                [window |-> DefaultTimeWindowTenthNs,
                 min_angle |-> DefaultMinAngleDeg])

\* Line 84 on an empty stream: time.min() in the gate raises ValueError.
GateStageEmpty ==
    /\ mode = "rotating" /\ pc = "gate"
    /\ Len0(time) = 0
    /\ pc' = "ValueError"
    /\ UNCHANGED <<paramVars, auxVars, fixedArrays, matchVars, otherVars, warned, saved>>

\* Lines 80-95: the gate, then every array restricted to the mask.
GateStage ==
    /\ mode = "rotating" /\ pc = "gate"
    /\ Len0(time) > 0
    /\ mask' = FilterMask(x, y, time, RotationSpeedDegPerSec, NModules)
    /\ stats' = FilterStats(mask', time)
    /\ time_sec' = TimeSec(time)
    /\ x' = ApplyMask(x, mask')
    /\ y' = ApplyMask(y, mask')
    /\ z' = ApplyMask(z, mask')
    /\ energy' = ApplyMask(energy, mask')
    /\ time' = ApplyMask(time, mask')
    /\ pc' = "prepare"
    /\ UNCHANGED <<paramVars, matchVars, idx1, idx2, warned, saved>>
    /\ UNCHANGED <<angles, time_window, table, argsort_memo, first_out, probe>>

NextRotating ==
    \/ GateStageEmpty
    \/ GateStage
    \/ Next

SpecRotating == InitRotating /\ [][NextRotating]_vars

\* Streams whose largest raw time lies just below, exactly on and just
\* above 1e9 (999e6 + k * 1e6) and 1e12 (999e9 + k * 1e9), and small ones.
UnitFormats ==
    { [base |-> 999, exp |-> 6], [base |-> 999, exp |-> 9],
      [base |-> 0, exp |-> 0] }

InitUnit ==
    /\ pc = "filter"
    /\ \E fmt \in UnitFormats :
         \E s \in UNION { [0 .. m - 1 -> GateEvents(fmt)] : m \in 0 .. MaxN } :
            Loaded("gate", s, fmt,
                   [window |-> DefaultTimeWindowTenthNs,
                    min_angle |-> DefaultMinAngleDeg])

SpecUnit == InitUnit /\ [][NextGate]_vars

-----------------------------------------------------------------------------
(* The active sector pair as a function of the elapsed time, the rotation  *)
(* speed and the number of modules: lines 97-101 on a stream that starts   *)
(* at t_min = 0, with times in tenths of a second.                          *)

MaxHalfModules == 9    \* n_modules is 2, 4, .. 2 * MaxHalfModules
MaxDeciSec == 30       \* elapsed times are 0 .. MaxDeciSec tenths of a second

Speeds == { RotationSpeedDegPerSec, 2 * RotationSpeedDegPerSec }

\* The half-rotation period 180 / speed, in tenths of a second.
HalfRotation(speed) == 1800 \div speed

InitActive ==
    /\ pc = "query"
    /\ LoadedButTime("active", Empty, [base |-> 0, exp |-> -1],
                     [window |-> DefaultTimeWindowTenthNs,
                      min_angle |-> DefaultMinAngleDeg])
    /\ \E h \in 1 .. MaxHalfModules, sp \in Speeds, t \in 0 .. MaxDeciSec :
         /\ time = <<0, t, t + HalfRotation(sp)>>
         /\ probe = [n_modules |-> 2 * h, speed |-> sp]

\* Lines 97-101 for the events at t and at t + 180 / speed.
QueryActive ==
    /\ mode = "active" /\ pc = "query"
    /\ LET a == [q \in 2 .. 3 |->
                   ActiveModuleA(time[q], time[1], time[3], probe.speed,
                                 probe.n_modules)]
       IN  probe' = [n_modules |-> probe.n_modules, speed |-> probe.speed,
                     active_a |-> a[2],
                     active_b |-> ActiveModuleB(a[2], probe.n_modules),
                     later_a |-> a[3],
                     later_b |-> ActiveModuleB(a[3], probe.n_modules)]
    /\ pc' = "done"
    /\ UNCHANGED <<paramVars, fixedArrays, matchVars, otherVars, warned, saved>>
    /\ UNCHANGED <<time_sec, table, argsort_memo, first_out>>

NextActive == QueryActive

SpecActive == InitActive /\ [][NextActive]_vars

-----------------------------------------------------------------------------
(* Two invocations of one entry point on the same file with the same      *)
(* parameters.  The second invocation reads the file again; whatever the   *)
(* first one left in the locals is still there until the code of the       *)
(* entry point assigns them.                                                *)

\* What an invocation returns or writes.
Output ==
    [coinc |-> coinc, warned |-> warned, saved |-> saved, mask |-> mask,
     stats |-> stats]

EntryPoint(m) ==
    CASE m = "full" -> "prepare"
      [] m = "partial" -> "split"
      [] m = "gate" -> "filter"

Reinvoke ==
    /\ pc = "done" /\ first_out = Empty
    /\ first_out' = <<Output>>
    /\ x' = [k \in DOMAIN singles |-> singles[k].x]
    /\ y' = [k \in DOMAIN singles |-> singles[k].y]
    /\ z' = [k \in DOMAIN singles |-> PostPositionZ(singles[k])]
    /\ energy' = [k \in DOMAIN singles |-> TotalEnergyDeposit(singles[k])]
    /\ time' = [k \in DOMAIN singles |-> singles[k].time]
    /\ warned' = FALSE /\ saved' = FALSE
    /\ pc' = EntryPoint(mode)
    /\ UNCHANGED <<angles, time_window, time_sec, table, argsort_memo, probe>>
    /\ UNCHANGED <<paramVars, matchVars, otherVars>>

InitTwice ==
    LET prm == [window |-> DefaultTimeWindowTenthNs,
                min_angle |-> DefaultMinAngleDeg]
    IN  \/ /\ pc = "prepare"
            /\ \E s \in GenSingles(NsFormat, MaxN)
                        \cup {ExampleSingles(NsFormat)} :
                 Loaded("full", s, NsFormat, prm)
        \/ /\ pc = "split"
            /\ \E s \in UNION { [0 .. m - 1 -> PartialEvents] : m \in 0 .. MaxN }
                        \cup {PartialExample} :
                 Loaded("partial", s, [base |-> 0, exp |-> 0], prm)
        \/ /\ pc = "filter"
            /\ \E s \in UNION { [0 .. m - 1 -> GateEvents(NsFormat)] :
                                m \in 0 .. MaxN } :
                 Loaded("gate", s, NsFormat, prm)

NextTwice ==
    \/ Next
    \/ NextPartial
    \/ NextGate
    \/ Reinvoke

SpecTwice == InitTwice /\ [][NextTwice]_vars

-----------------------------------------------------------------------------
(* Full-ring runs followed to their end.                                   *)

InitScan ==
    /\ pc = "prepare"
    /\ \E fmt \in {NsFormat, NsTickFormat} :
         \E s \in IF fmt = NsFormat
                  THEN GenSingles(fmt, MaxN) \cup {ExampleSingles(fmt)}
                  ELSE FourStreams :
            Loaded("full", s, fmt,
                   [window |-> DefaultTimeWindowTenthNs,
                    min_angle |-> DefaultMinAngleDeg])

\* The interpreter keeps executing the function until it returns or
\* raises.
SpecScanFair == InitScan /\ [][Next]_vars /\ WF_vars(Next)

-----------------------------------------------------------------------------
(* The same events in two file orders: a full-ring run on a file whose     *)
(* rows are in time order with no two times equal, then a run on the same  *)
(* rows in any order.                                                      *)

StrictlyIncreasingTimes(s) ==
    \A a, b \in DOMAIN s : a < b => s[a].time < s[b].time

RowOrders(s) ==
    { q \in [DOMAIN s -> DOMAIN s] : \A a, b \in DOMAIN s : a # b => q[a] # q[b] }

InitReorder ==
    /\ pc = "prepare"
    /\ \E fmt \in {NsFormat, NsTickFormat} :
         \E s \in { g \in GenSingles(fmt, MaxN) : StrictlyIncreasingTimes(g) }
                  \cup (IF fmt = NsFormat THEN {ExampleSingles(fmt)}
                        ELSE FourStreams) :
            Loaded("full", s, fmt,
                   [window |-> DefaultTimeWindowTenthNs,
                    min_angle |-> DefaultMinAngleDeg])

\* The first run's result is kept and the file's rows are re-ordered.
ReinvokeReordered ==
    /\ mode = "full" /\ pc = "done" /\ first_out = Empty
    /\ first_out' = <<Output>>
    /\ \E q \in RowOrders(singles) : singles' = Take(singles, q)
    /\ x' = [k \in DOMAIN singles' |-> singles'[k].x]
    /\ y' = [k \in DOMAIN singles' |-> singles'[k].y]
    /\ z' = [k \in DOMAIN singles' |-> PostPositionZ(singles'[k])]
    /\ energy' = [k \in DOMAIN singles' |-> TotalEnergyDeposit(singles'[k])]
    /\ time' = [k \in DOMAIN singles' |-> singles'[k].time]
    /\ warned' = FALSE /\ saved' = FALSE
    /\ pc' = "prepare"
    /\ UNCHANGED <<mode, texp, time_window_tenth_ns, min_angle_deg>>
    /\ UNCHANGED <<angles, time_window, time_sec, table, argsort_memo, probe>>
    /\ UNCHANGED <<matchVars, otherVars>>

NextReorder == Next \/ ReinvokeReordered

SpecReorder == InitReorder /\ [][NextReorder]_vars

-----------------------------------------------------------------------------
(* Properties of the full-ring matcher.                                    *)

Members(p) == {p.ev1, p.ev2}

\* The shortest arc between two azimuths, in degrees.
ShortestArc(a, b) ==
    CHOOSE d \in {Abs(a - b + 360 * k) : k \in -1 .. 1} :
        \A k \in -1 .. 1 : d <= Abs(a - b + 360 * k)

PairArc(p) ==
    ShortestArc(Atan2Deg(p.globalPosY1, p.globalPosX1),
                Atan2Deg(p.globalPosY2, p.globalPosX2))

\* Event k is an eligible partner of event a: later in the sorted stream,
\* unused, inside a's window and far enough in angle.
Eligible(a, k) ==
    /\ a < k /\ k < n_singles
    /\ ~used[k]
    /\ LessDec(time[k] - time[a], texp, time_window.c, time_window.e)
    /\ ShortestArc(angles[a], angles[k]) > min_angle_deg

\* C1: exclusivity.  No index of the time-sorted stream is a member of
\* more than one emitted pair.
C1_Exclusivity ==
    \A a, b \in DOMAIN coinc :
        a # b => Members(coinc[a]) \cap Members(coinc[b]) = {}

C1_Witness == mode = "full" /\ pc = "done" /\ Len(coinc) = 2

C3_AngularBound ==
    \A k \in DOMAIN coinc : PairArc(coinc[k]) > min_angle_deg

\* A pair was emitted, and an event was left unmatched that lies in the
\* window of an earlier event at a separation of exactly min_angle_deg,
\* reached by wrapping.
C3_Witness ==
    /\ mode = "full" /\ pc = "done" /\ Len(coinc) > 0
    /\ \E a, b \in DOMAIN time :
         /\ a < b /\ ~used[b]
         /\ LessDec(time[b] - time[a], texp, time_window.c, time_window.e)
         /\ Abs(angles[a] - angles[b]) > 180
         /\ ShortestArc(angles[a], angles[b]) = min_angle_deg

\* C5: an empty input ends full-ring mode without an exception.
C5_EmptyInputNoError ==
    (mode = "full" /\ Len0(singles) = 0) => pc # "ValueError"

\* C7: a non-empty full-ring run with no qualifying pair still writes the
\* (empty) Coincidences table and warns.
C7_ZeroCoincidencesTable ==
    (mode = "full" /\ pc = "done" /\ Len0(singles) > 0 /\ n_coinc = 0)
        => (saved /\ warned)

RawFormat == [base |-> 0, exp |-> 0]

DefaultParams ==
    /\ time_window_tenth_ns = DefaultTimeWindowTenthNs
    /\ min_angle_deg = DefaultMinAngleDeg

ExamplePairs ==
    /\ Len(coinc) = 2
    /\ coinc[1].ev1 = 0 /\ coinc[1].ev2 = 1
    /\ coinc[2].ev1 = 2 /\ coinc[2].ev2 = 3

\* C8: the five-event example, timestamps [0,1,2,3,10] and a 4.5 ns
\* window, ends with exactly the pairs (0,1) and (2,3).
C8_ExampleTwoPairs ==
    (/\ mode = "full" /\ pc \in {"done", "ValueError"}
     /\ singles = ExampleSingles(RawFormat) /\ texp = RawFormat.exp
     /\ DefaultParams)
        => (pc = "done" /\ ExamplePairs)

\* The same five events in a file whose values exceed 1e6 (or that holds
\* seconds): there the example's two pairs are what the matcher emits.
C8_ExampleOtherScales ==
    (/\ mode = "full" /\ pc = "done"
     /\ \E fmt \in TimeFormats \ {RawFormat} :
          singles = ExampleSingles(fmt) /\ texp = fmt.exp
     /\ DefaultParams)
        => ExamplePairs

\* C10: earliest eligible partner.  A step that emits a pair emits (i, j)
\* with j the smallest eligible partner of i; a step that gives up on i
\* does so only when i has no eligible partner; and no event before i is
\* a member of a pair emitted later.
C10_EarliestEligible ==
    [][/\ (n_coinc' = n_coinc + 1) =>
            LET p == coinc'[Len(coinc')] IN
              /\ p.ev1 = i /\ Eligible(i, p.ev2)
              /\ \A k \in 0 .. p.ev2 - 1 : ~Eligible(i, k)
              /\ \A m \in 0 .. i - 1 : m \notin Members(p)
       /\ (pc = "inner" /\ pc' = "outer" /\ n_coinc' = n_coinc) =>
              \A k \in DOMAIN time : ~Eligible(i, k)
      ]_vars

\* The pair (0, 2) was emitted over the ineligible event 1, which stays
\* unmatched.
C10_Witness ==
    /\ mode = "full" /\ pc = "done"
    /\ \E k \in DOMAIN coinc : coinc[k].ev2 > coinc[k].ev1 + 1
    /\ \E m \in DOMAIN used : ~used[m]

-----------------------------------------------------------------------------
(* Properties of the partial-ring merge.                                   *)

Range0(f) == {f[k] : k \in DOMAIN f}

\* The position in idx of the event with file index e.
PosIn(idx, e) == CHOOSE q \in DOMAIN idx : idx[q] = e

\* The x>0 time that is the latest one still less than t, if there is one.
IsLatestEarlier(t2, t1) ==
    /\ t2 < t1
    /\ \A k \in Range0(idx2) : time[k] < t1 => time[k] <= t2

\* Where the pointer stood when pair n's x<0 event was taken up: just past
\* the partner of pair n - 1.
PointerBefore(n) == IF n = 1 THEN 0 ELSE PosIn(idx2, coinc[n - 1].ev2) + 1

ExamplePartialPairs ==
    /\ Len(coinc) = 3
    /\ \A n \in 1 .. 3 :
         coinc[n].time1 = 2 * n - 1 /\ coinc[n].time2 = 2 * n - 2

-----------------------------------------------------------------------------
(* Properties of the rotating gate.                                        *)

\* The sector whose arc holds the azimuth ang, shifted by half a turn.
SectorOfAngle(ang) ==
    CHOOSE q \in 0 .. NModules - 1 :
        LET shifted == (ang + 180) % 360
        IN  q * 360 <= shifted * NModules /\ shifted * NModules < (q + 1) * 360

\* Elapsed time el * 10^k seconds: the number of whole sector widths the
\* rotation has swept.
SweptSectors(el, k) ==
    LET turn == RotationSpeedDegPerSec * NModules * el
        most == (RotationSpeedDegPerSec * NModules * (MaxTickGate + 1)) \div 360
    IN  CHOOSE q \in 0 .. most :
            /\ q = 0 \/ ~LessDec(turn, k, q * 360, 0)
            /\ LessDec(turn, k, (q + 1) * 360, 0)

\* Seconds per unit of the time arrays, as a power of ten.
SecondsExp ==
    LET latest == CHOOSE m \in Range0(time) : \A t \in Range0(time) : t <= m
    IN  IF GreaterPow10(latest, texp, 12) THEN texp - 12
        ELSE IF GreaterPow10(latest, texp, 9) THEN texp - 9
        ELSE texp

\* The active sector pair at event k's own time, counted from the
\* earliest time of the stream.
ActivePair(k) ==
    LET first == CHOOSE m \in Range0(time) : \A t \in Range0(time) : m <= t
        a == SweptSectors(time[k] - first, SecondsExp) % (NModules \div 2)
    IN  {a, a + NModules \div 2}

\* C4: the gate retains an event if and only if its sector is one of the
\* active pair at the event's own time.
C4_SectorGate ==
    (mode = "gate" /\ pc = "done") =>
        /\ DOMAIN mask = DOMAIN singles
        /\ \A k \in DOMAIN mask :
             mask[k] <=> SectorOfAngle(Atan2Deg(y[k], x[k])) \in ActivePair(k)

\* One event is retained after the earliest time, in the second sector of
\* a pair other than the initial one, and one event is dropped.
C4_Witness ==
    /\ mode = "gate" /\ pc = "done"
    /\ \E k \in DOMAIN mask :
         /\ mask[k] /\ time[k] > ArrayMin(time)
         /\ 0 \notin ActivePair(k)
         /\ SectorOfAngle(Atan2Deg(y[k], x[k])) >= NModules \div 2
    /\ \E k \in DOMAIN mask : ~mask[k]

\* C6: the gate called with zero events returns an empty mask and a
\* summary with 0 percent retained, without an exception.
C6_EmptyGateSummary ==
    (mode = "gate" /\ Len0(singles) = 0 /\ pc # "filter") =>
        (pc = "done" /\ mask = Empty /\ stats.percentage.num = 0)

-----------------------------------------------------------------------------
(* Properties of the gated full-ring run.                                  *)

\* An event of position (px, py) and time t is one the gate retains in the
\* stream as read: its sector is in the pair that is active at t, counted
\* in seconds from the earliest time of the whole stream.
RetainedAsRead(px, py, t) ==
    LET raw == {singles[k].time : k \in DOMAIN singles}
        first == CHOOSE m \in raw : \A u \in raw : m <= u
        latest == CHOOSE m \in raw : \A u \in raw : u <= m
        secexp == IF GreaterPow10(latest, texp, 12) THEN texp - 12
                  ELSE IF GreaterPow10(latest, texp, 9) THEN texp - 9
                  ELSE texp
        a == SweptSectors(t - first, secexp) % (NModules \div 2)
    IN  SectorOfAngle(Atan2Deg(py, px)) \in {a, a + NModules \div 2}

\* C22: gate before match.  With rotating=True, once the gate has run the
\* matcher's arrays hold exactly the retained events (as many as the
\* stream as read has, each one retained), the used flags cover only
\* them, and both members of every emitted pair are retained events.
C22_GateBeforeMatch ==
    (mode = "rotating" /\ pc \notin {"gate", "ValueError"}) =>
        /\ Len0(x) = Cardinality({k \in DOMAIN singles :
               RetainedAsRead(singles[k].x, singles[k].y, singles[k].time)})
        /\ \A k \in DOMAIN x : RetainedAsRead(x[k], y[k], time[k])
        /\ pc \in {"outer", "inner", "done"} => DOMAIN used = DOMAIN x
        /\ \A n \in DOMAIN coinc :
             /\ RetainedAsRead(coinc[n].globalPosX1, coinc[n].globalPosY1,
                               coinc[n].time1)
             /\ RetainedAsRead(coinc[n].globalPosX2, coinc[n].globalPosY2,
                               coinc[n].time2)

\* A gated run has ended with a pair, and the stream as read holds, at the
\* pair's time, a dropped event that is more than min_angle_deg away from
\* the pair's first member and earlier in the file than its second.
C22_Witness ==
    /\ mode = "rotating" /\ pc = "done" /\ Len(coinc) = 1
    /\ \E d, b \in DOMAIN singles :
         /\ d < b
         /\ ~RetainedAsRead(singles[d].x, singles[d].y, singles[d].time)
         /\ singles[d].time = coinc[1].time1
         /\ ShortestArc(Atan2Deg(singles[d].y, singles[d].x),
                        Atan2Deg(coinc[1].globalPosY1, coinc[1].globalPosX1))
              > min_angle_deg
         /\ singles[b].x = coinc[1].globalPosX2
         /\ singles[b].y = coinc[1].globalPosY2
         /\ singles[b].time = coinc[1].time2

-----------------------------------------------------------------------------
(* Further properties of the full-ring matcher.                            *)

\* C11: output ordering.  Along the output, time1 never decreases,
\* whatever the order of the events in the file.
C11_OutputOrdering ==
    \A a, b \in DOMAIN coinc :
        (mode = "full" /\ a < b) => coinc[a].time1 <= coinc[b].time1

\* Two pairs, the second one later than the first, from a file that is
\* not in time order.
C11_Witness ==
    /\ mode = "full" /\ pc = "done" /\ Len(coinc) = 2
    /\ coinc[1].time1 < coinc[2].time1
    /\ \E a, b \in DOMAIN singles : a < b /\ singles[a].time > singles[b].time

\* C20: distinct members.  In every pair of the full-ring matcher the two
\* events are distinct, the first one comes strictly before the second in
\* the time-sorted stream, and time1 <= time2.
C20_DistinctMembers ==
    \A k \in DOMAIN coinc :
        mode = "full" =>
            /\ coinc[k].ev1 # coinc[k].ev2
            /\ coinc[k].ev1 < coinc[k].ev2
            /\ coinc[k].time1 <= coinc[k].time2
            /\ coinc[k].time1 = time[coinc[k].ev1]
            /\ coinc[k].time2 = time[coinc[k].ev2]

\* A finished run with a pair whose second member is later in time and is
\* not the event right after the first one.
C20_Witness ==
    /\ mode = "full" /\ pc = "done"
    /\ \E k \in DOMAIN coinc :
         /\ coinc[k].ev2 > coinc[k].ev1 + 1
         /\ coinc[k].time1 < coinc[k].time2

\* Pairs of the sorted stream that satisfy the window and angular bounds.
ValidPairs ==
    { pr \in (DOMAIN time) \X (DOMAIN time) :
        /\ pr[1] < pr[2]
        /\ LessDec(Abs(time[pr[2]] - time[pr[1]]), texp,
                   time_window.c, time_window.e)
        /\ ShortestArc(angles[pr[1]], angles[pr[2]]) > min_angle_deg }

\* Sets of valid pairs no two of which share an event.
DisjointValidSets ==
    { M \in SUBSET ValidPairs :
        \A p1, p2 \in M : p1 # p2 => {p1[1], p1[2]} \cap {p2[1], p2[2]} = {} }

\* C21: greedy, not maximum.  The matcher never emits more pairs than a
\* set of disjoint valid pairs can hold, and on the four-event stream with
\* azimuths 0, 135, -90, -135 in one window it emits one pair, (0, 1),
\* although (0, 3) and (1, 2) are two disjoint valid pairs.
C21_GreedyNotMaximum ==
    (mode = "full" /\ pc = "done") =>
        /\ \E M \in DisjointValidSets : Cardinality(M) >= Len(coinc)
        /\ singles = GreedyStream =>
             /\ Len(coinc) = 1
             /\ coinc[1].ev1 = 0 /\ coinc[1].ev2 = 1
             /\ {<<0, 3>>, <<1, 2>>} \in DisjointValidSets

\* The run on that stream has ended with a single pair while two disjoint
\* valid pairs exist.
C21_Witness ==
    /\ mode = "full" /\ pc = "done" /\ singles = GreedyStream
    /\ Len(coinc) = 1
    /\ \E M \in DisjointValidSets : Cardinality(M) = 2

-----------------------------------------------------------------------------
(* Properties of repeated invocations.                                     *)

-----------------------------------------------------------------------------
(* Properties of the time-unit inferences.                                 *)

\* C13: window unit inference.  For every maximum raw timestamp the
\* matcher scales the window by the unit the event-time inference of the
\* gate assigns to that maximum (above 1e12 picoseconds, above 1e9
\* nanoseconds, otherwise seconds), so the window is time_window_ns
\* nanoseconds of the data's scale.
C13_WindowUnitMirrorsEventUnit ==
    (mode = "full" /\ time_window # NoWindow) =>
        time_window = [c |-> time_window_tenth_ns,
                       e |-> TimeUnitExp(ArrayMax(time)) - 10]

\* The unit the strict thresholds give: 12 when 1e12 < tmax, else 9 when
\* 1e9 < tmax, else 0.
StrictUnitExp(tmax) ==
    IF LessDec(1, 12, tmax, texp) THEN 12
    ELSE IF LessDec(1, 9, tmax, texp) THEN 9
    ELSE 0

\* C14: time-unit inference of event times.  The gate divides every
\* event's time (from the stream's minimum) by one factor: 1e12 when the
\* maximum raw time is strictly above 1e12, else 1e9 when it is strictly
\* above 1e9, else 1; a maximum of exactly 1e12 is divided by 1e9 and a
\* maximum of exactly 1e9 is left unchanged.
C14_TimeUnitInference ==
    (mode = "gate" /\ pc = "done") =>
        \A k \in DOMAIN time :
            time_sec[k] = [c |-> time[k] - ArrayMin(time),
                           e |-> texp - StrictUnitExp(ArrayMax(time))]

\* A stream whose maximum is exactly 1e12 (1000 * 1e9), with an earlier
\* event, has been divided by 1e9.
C14_Witness ==
    /\ mode = "gate" /\ pc = "done"
    /\ texp = 9 /\ ArrayMax(time) = 1000 /\ ArrayMin(time) = 999
    /\ \A k \in DOMAIN time : time_sec[k].e = 0

-----------------------------------------------------------------------------
(* Properties of ingestion.                                                *)

\* The GlobalTime branch and the position branches differ in length.
Mismatched == Len0(time) # n_singles

\* C15: ingestion length check.  When the input sequences do not all have
\* the same length the run fails before any matching: it never emits a
\* pair, never writes a table and never ends normally.
C15_LengthMismatchIsFatal ==
    (mode = "full" /\ Mismatched) =>
        (Len(coinc) = 0 /\ ~saved /\ pc # "done")

-----------------------------------------------------------------------------
(* Further properties of the partial-ring merge.                           *)

\* C16: no time-window and no angular filter in the partial ring.  Every
\* x<0 event the pass has gone through is paired (none is rejected), in
\* the order of the x<0 stream; at the end, when both streams are
\* non-empty, the earliest x<0 event is in the first pair.
C16_NoFilterPartial ==
    mode = "partial" =>
        /\ pc \in {"for", "while", "save", "done"} =>
             /\ Len(coinc) = i
             /\ \A n \in DOMAIN coinc : coinc[n].ev1 = idx1[n - 1]
        /\ (pc = "done" /\ Len0(idx1) > 0 /\ Len0(idx2) > 0) =>
             /\ Len(coinc) >= 1
             /\ \A k \in Range0(idx1) : coinc[1].time1 <= time[k]

\* The pass has ended and the earliest x<0 event is paired with a partner
\* that is both outside the window and closer than min_angle_deg.
C16_Witness ==
    /\ mode = "partial" /\ pc = "done" /\ Len(coinc) >= 1
    /\ ~LessDec(Abs(coinc[1].time1 - coinc[1].time2), texp,
                ScaleTimeWindow(ArrayMax(time), time_window_tenth_ns).c,
                ScaleTimeWindow(ArrayMax(time), time_window_tenth_ns).e)
    /\ PairArc(coinc[1]) < min_angle_deg

\* One step of the pass: the pointer j and the position i in the x<0
\* stream do not go back, i moves by at most one event, and from the loop
\* head the pass leaves the loop at once when the x<0 stream is exhausted
\* or the pointer is past the last x>0 event.
ForwardOnlyStep ==
    (mode = "partial" /\ pc \in {"for", "while"}) =>
        /\ j' >= j
        /\ i' \in {i, i + 1}
        /\ (pc = "for" /\ (i >= Len0(idx1) \/ j >= Len0(idx2))) =>
             (pc' = "save" /\ coinc' = coinc)

\* The x<0 stream is in non-decreasing time order.
WalkInTimeOrder ==
    \A a, b \in DOMAIN idx1 : a < b => time[idx1[a]] <= time[idx1[b]]

\* C17: partial-ring termination and forward-only pointer.  The pointer j
\* never decreases, the x<0 stream is walked once in non-decreasing time
\* order, the pass stops as soon as either stream is exhausted, and every
\* run ends.
C17_ForwardOnlyTerminates ==
    /\ [][ForwardOnlyStep]_vars
    /\ [](mode = "partial" => WalkInTimeOrder)
    /\ <>(pc = "done")

\* The pass has ended on the pointer running past the last x>0 event,
\* after a pair, with an x<0 event left over.
C17_Witness ==
    /\ mode = "partial" /\ pc = "done"
    /\ i < Len0(idx1) /\ j >= Len0(idx2)
    /\ Len(coinc) >= 1

\* The smaller of two numbers.
Min2(a, b) == IF a <= b THEN a ELSE b

\* C23: partial-ring exclusivity and yield.  No event of either stream is
\* in more than one pair, the second members' positions in the x>0 stream
\* strictly increase from pair to pair, there are at most as many pairs as
\* the shorter stream has events, and an event with x = 0 is in neither
\* stream and in no pair.
C23_PartialExclusivityAndYield ==
    (mode = "partial" /\ pc \in {"for", "while", "save", "done"}) =>
        /\ \A m, n \in DOMAIN coinc : m < n =>
             /\ coinc[m].ev1 # coinc[n].ev1
             /\ coinc[m].ev2 # coinc[n].ev2
             /\ PosIn(idx2, coinc[m].ev2) < PosIn(idx2, coinc[n].ev2)
        /\ Len(coinc) <= Min2(Cardinality({k \in DOMAIN x : x[k] < 0}),
                              Cardinality({k \in DOMAIN x : x[k] > 0}))
        /\ \A k \in DOMAIN x : x[k] = 0 =>
             /\ k \notin Range0(idx1) \cup Range0(idx2)
             /\ \A n \in DOMAIN coinc : k \notin {coinc[n].ev1, coinc[n].ev2}
        /\ \A n \in DOMAIN coinc : x[coinc[n].ev1] < 0 /\ x[coinc[n].ev2] > 0

\* The pass has ended with two pairs whose second members are not
\* neighbours in the x>0 stream, in a file that also holds an event with
\* x = 0.
C23_Witness ==
    /\ mode = "partial" /\ pc = "done" /\ Len(coinc) = 2
    /\ PosIn(idx2, coinc[2].ev2) > PosIn(idx2, coinc[1].ev2) + 1
    /\ \E k \in DOMAIN x : x[k] = 0

\* The five values of input event k.
FieldsOf(k) ==
    <<singles[k].x, singles[k].y, singles[k].z, singles[k].energy,
      singles[k].time>>

\* C24: field alignment.  In either mode the five values of side 1 of
\* every emitted pair are those of one input event and the five values of
\* side 2 are those of one other input event, the times being the input's
\* own numbers; and in full-ring mode, from the sort on, every position of
\* the working arrays holds the five values of one input event, each input
\* event at exactly one position, with the angle of that event's x and y.
C24_FieldAlignment ==
    /\ \A n \in DOMAIN coinc :
         \E a, b \in DOMAIN singles :
            /\ a # b
            /\ FieldsOf(a) = <<coinc[n].globalPosX1, coinc[n].globalPosY1,
                               coinc[n].globalPosZ1, coinc[n].energy1,
                               coinc[n].time1>>
            /\ FieldsOf(b) = <<coinc[n].globalPosX2, coinc[n].globalPosY2,
                               coinc[n].globalPosZ2, coinc[n].energy2,
                               coinc[n].time2>>
    /\ (mode = "full" /\ pc \in {"outer", "inner", "done"}) =>
         /\ \A k \in DOMAIN x :
              /\ z[k] \in DOMAIN singles
              /\ FieldsOf(z[k]) = <<x[k], y[k], z[k], energy[k], time[k]>>
              /\ angles[k] = Atan2Deg(y[k], x[k])
         /\ \A a \in DOMAIN singles : \E k \in DOMAIN x : z[k] = a

\* A full-ring run has ended with two pairs, and the second member of the
\* first pair stands earlier in the file than its first member.
C24_Witness ==
    /\ mode = "full" /\ pc = "done" /\ Len(coinc) = 2
    /\ coinc[1].globalPosZ2 < coinc[1].globalPosZ1
    /\ coinc[1].energy2 < coinc[1].energy1

\* C25: input-order independence.  For a stream with no two timestamps
\* equal, a run on the rows in another file order ends with the same list
\* of pairs as the run on the rows in time order: the same members with
\* the same values, pair by pair, and the same warning and table.
C25_InputOrderIndependence ==
    (mode = "full" /\ pc = "done" /\ first_out # Empty) =>
        /\ coinc = first_out[1].coinc
        /\ warned = first_out[1].warned
        /\ saved = first_out[1].saved

\* The second run has ended with two pairs on a file whose rows are not
\* in time order.
C25_Witness ==
    /\ mode = "full" /\ pc = "done" /\ first_out # Empty
    /\ Len(coinc) = 2
    /\ \E a, b \in DOMAIN singles : a < b /\ singles[a].time > singles[b].time

\* One step of the scan: the outer index i stays or moves on by one, the
\* inner index j moves on by exactly one on every turn of the while loop,
\* and no used flag is cleared.
ScanStep ==
    (mode = "full" /\ pc \in {"outer", "inner"}) =>
        /\ i' \in {i, i + 1}
        /\ (pc = "inner" /\ pc' = "inner") => j' = j + 1
        /\ DOMAIN used' = DOMAIN used
        /\ \A k \in DOMAIN used : used[k] => used'[k]

\* Between steps of the scan: i and j are at most the number of events,
\* and the used events are exactly twice as many as the pairs emitted.
ScanCounts ==
    (mode = "full" /\ pc \in {"outer", "inner", "done"}) =>
        /\ i <= n_singles /\ j <= n_singles
        /\ pc = "inner" => (i < j /\ i < n_singles)
        /\ n_coinc = Len(coinc)
        /\ Cardinality({k \in DOMAIN used : used[k]}) = 2 * n_coinc

\* C26: termination and resources of the full-ring scan.  Every run ends
\* (an empty file ends at time.max(), before the scan); the scan takes at
\* most n_singles outer steps; within one outer step j strictly increases
\* and never exceeds n_singles; a used flag, once set, stays set; and the
\* number of used events is always twice the number of pairs emitted.
C26_ScanTerminates ==
    /\ [][ScanStep]_vars
    /\ []ScanCounts
    /\ <>(pc \in {"done", "ValueError"})

\* The scan has ended after one outer step per event, with two pairs, four
\* used events and an event that is in no pair.
C26_Witness ==
    /\ mode = "full" /\ pc = "done" /\ i = n_singles
    /\ n_coinc = 2
    /\ Cardinality({k \in DOMAIN used : used[k]}) = 4
    /\ \E k \in DOMAIN used : ~used[k]

-----------------------------------------------------------------------------
(* Properties of the active sector pair.                                   *)

\* The number of whole sector widths (360 / n degrees) swept in t tenths
\* of a second at speed degrees per second: one more every
\* sector width / speed seconds.
WholeSectors(t, speed, n) ==
    CHOOSE q \in 0 .. n * t :
        q * 3600 <= speed * n * t /\ speed * n * t < (q + 1) * 3600

\* C18: active sector pair.  For every elapsed time and every even
\* n_modules, active_a is in 0 .. n/2 - 1 and active_b = active_a + n/2 is
\* in n/2 .. n - 1; the pair is the same again half a rotation
\* (180 / speed seconds) later, and active_a is the number of whole sector
\* widths swept, modulo n/2.
C18_ActiveSectorPair ==
    (mode = "active" /\ pc = "done") =>
        LET n == probe.n_modules
            half == n \div 2
        IN  /\ probe.active_a \in 0 .. half - 1
            /\ probe.active_b = probe.active_a + half
            /\ probe.active_b \in half .. n - 1
            /\ probe.later_a = probe.active_a
            /\ probe.later_b = probe.active_b
            /\ probe.active_a = WholeSectors(time[2], probe.speed, n) % half

-----------------------------------------------------------------------------
(* Properties of the written table.                                        *)

\* C19: output table shape.  Whenever a table has been written, every
\* column has exactly n_coinc entries, eventID1 and eventID2 are
\* 0 .. n_coinc - 1 in output order, and the compatibility columns are all
\* zero.
C19_TableShape ==
    saved =>
        /\ \A c \in DOMAIN table :
             DOMAIN table[c] = 1 .. n_coinc /\ Len(coinc) = n_coinc
        /\ \A c \in IdColumns : \A k \in 1 .. n_coinc : table[c][k] = k - 1
        /\ \A c \in ZeroColumns : \A k \in 1 .. n_coinc : table[c][k] = 0
        /\ IdColumns \cup ZeroColumns \subseteq DOMAIN table

\* A full-ring table of two coincidences has been written.
C19_Witness ==
    /\ mode = "full" /\ saved /\ n_coinc = 2
    /\ table.eventID2 = <<0, 1>> /\ table.time1 # table.time2

====
